---- MODULE Spec2Model ----
(***************************************************************************)
(* Model of the /webhook triage handler of RescueAI (src/main.py).         *)
(*                                                                         *)
(* Python values are tagged pairs <<type, payload>>:                       *)
(*   <<"dict", f>>   f a function from key strings to values               *)
(*   <<"list", s>>   s a sequence of values                                *)
(*   <<"str", t>>    t a string                                            *)
(*   <<"int", n>>    <<"None", 0>>    <<"unset", 0>> (an unbound local)    *)
(* A text (a request body, the oracle's answer) is the sequence of its     *)
(* lexical tokens; json_loads is a recursive-descent parser over it.       *)
(***************************************************************************)
EXTENDS Integers, Sequences, FiniteSets, TLC

\* Number of requests that arrive at the service during one run.
NumRequests == 2

Requests == 1..NumRequests

\* ------------------------------------------------------------------------
\* Python values
\* ------------------------------------------------------------------------
PyDict(f) == <<"dict", f>>
PyList(s) == <<"list", s>>
PyStr(t) == <<"str", t>>
PyInt(n) == <<"int", n>>
None == <<"None", 0>>
Unset == <<"unset", 0>>
EmptyDict == PyDict([x \in {} |-> None])

TypeOf(x) == x[1]
Val(x) == x[2]
IsDict(x) == TypeOf(x) = "dict"

\* d[key] = value on a dict payload (in-place item assignment).
SetItem(f, key, value) ==
    [x \in (DOMAIN f) \cup {key} |-> IF x = key THEN value ELSE f[x]]

\* ------------------------------------------------------------------------
\* Tokens of a JSON text
\* ------------------------------------------------------------------------
LBrace == <<"{", 0>>
RBrace == <<"}", 0>>
LBrack == <<"[", 0>>
RBrack == <<"]", 0>>
Colon == <<":", 0>>
Comma == <<",", 0>>
TStr(t) == <<"str", t>>
TInt(n) == <<"int", n>>
TNull == <<"null", 0>>
\* Any run of characters that is not a JSON token (prose, a code fence).
TJunk == <<"junk", 0>>

ParseFail == [ok |-> FALSE, val |-> Unset, next |-> 0]

RECURSIVE ParseValue(_, _)
RECURSIVE ParseMembers(_, _, _)
RECURSIVE ParseElements(_, _, _)

\* Parses one JSON value of text t starting at token i.
ParseValue(t, i) ==
    IF i > Len(t) THEN ParseFail
    ELSE LET tok == t[i] IN
         CASE tok[1] = "str" -> [ok |-> TRUE, val |-> PyStr(tok[2]), next |-> i + 1]
           [] tok[1] = "int" -> [ok |-> TRUE, val |-> PyInt(tok[2]), next |-> i + 1]
           [] tok[1] = "null" -> [ok |-> TRUE, val |-> None, next |-> i + 1]
           [] tok[1] = "{" ->
                IF i + 1 <= Len(t) /\ t[i + 1] = RBrace
                THEN [ok |-> TRUE, val |-> EmptyDict, next |-> i + 2]
                ELSE ParseMembers(t, i + 1, [x \in {} |-> None])
           [] tok[1] = "[" ->
                IF i + 1 <= Len(t) /\ t[i + 1] = RBrack
                THEN [ok |-> TRUE, val |-> PyList(<<>>), next |-> i + 2]
                ELSE ParseElements(t, i + 1, <<>>)
           [] OTHER -> ParseFail

\* Parses  "key" : value  ( , "key" : value )* }  ; a repeated key keeps
\* the last value, as Python's dict does.
ParseMembers(t, i, acc) ==
    IF i + 1 > Len(t) \/ t[i][1] # "str" \/ t[i + 1] # Colon THEN ParseFail
    ELSE LET r == ParseValue(t, i + 2) IN
         IF ~r.ok \/ r.next > Len(t) THEN ParseFail
         ELSE LET acc2 == SetItem(acc, t[i][2], r.val) IN
              CASE t[r.next] = RBrace ->
                     [ok |-> TRUE, val |-> PyDict(acc2), next |-> r.next + 1]
                [] t[r.next] = Comma -> ParseMembers(t, r.next + 1, acc2)
                [] OTHER -> ParseFail

\* Parses  value ( , value )* ]
ParseElements(t, i, acc) ==
    LET r == ParseValue(t, i) IN
    IF ~r.ok \/ r.next > Len(t) THEN ParseFail
    ELSE LET acc2 == Append(acc, r.val) IN
         CASE t[r.next] = RBrack ->
                [ok |-> TRUE, val |-> PyList(acc2), next |-> r.next + 1]
           [] t[r.next] = Comma -> ParseElements(t, r.next + 1, acc2)
           [] OTHER -> ParseFail

\* json.loads / request.json(): the whole text must be one JSON value;
\* ok = FALSE stands for the exception raised otherwise.
json_loads(t) ==
    LET r == ParseValue(t, 1) IN
    IF r.ok /\ r.next = Len(t) + 1 THEN r ELSE ParseFail

\* ------------------------------------------------------------------------
\* Python operations used by the handler
\* ------------------------------------------------------------------------
LowerChar(c) ==
    CASE c = "A" -> "a" [] c = "B" -> "b" [] c = "C" -> "c" [] c = "D" -> "d"
      [] c = "E" -> "e" [] c = "F" -> "f" [] c = "G" -> "g" [] c = "H" -> "h"
      [] c = "I" -> "i" [] c = "J" -> "j" [] c = "K" -> "k" [] c = "L" -> "l"
      [] c = "M" -> "m" [] c = "N" -> "n" [] c = "O" -> "o" [] c = "P" -> "p"
      [] c = "Q" -> "q" [] c = "R" -> "r" [] c = "S" -> "s" [] c = "T" -> "t"
      [] c = "U" -> "u" [] c = "V" -> "v" [] c = "W" -> "w" [] c = "X" -> "x"
      [] c = "Y" -> "y" [] c = "Z" -> "z" [] OTHER -> c

RECURSIVE LowerFrom(_, _)
LowerFrom(t, i) ==
    IF i > Len(t) THEN ""
    ELSE LowerChar(SubSeq(t, i, i)) \o LowerFrom(t, i + 1)

\* str.lower()
lower(t) == LowerFrom(t, 1)

\* t2 occurs in t as a substring
Substring(t2, t) ==
    \E i \in 0..(Len(t) - Len(t2)) : SubSeq(t, i + 1, i + Len(t2)) = t2

\* `key in x` raises TypeError unless x is a container
InRaises(x) == TypeOf(x) \notin {"dict", "list", "str"}

\* `key in x` for a dict (its keys), a list (its elements), a str (substring)
In(key, x) ==
    CASE TypeOf(x) = "dict" -> key \in DOMAIN Val(x)
      [] TypeOf(x) = "list" -> \E i \in DOMAIN Val(x) : Val(x)[i] = PyStr(key)
      [] TypeOf(x) = "str" -> Substring(key, Val(x))
      [] OTHER -> FALSE

\* d.get(key, default) on a dict d
Get(d, key, default) ==
    IF key \in DOMAIN Val(d) THEN Val(d)[key] ELSE default

\* x.get(...) raises AttributeError unless x is a dict
GetRaises(x) == ~IsDict(x)

\* ------------------------------------------------------------------------
\* Inputs: request bodies and behaviours of the classification oracle
\* ------------------------------------------------------------------------
BodyFull ==
    << LBrace, TStr("transcript"), Colon, TStr("chest pain"), Comma,
       TStr("extracted_data"), Colon,
         LBrace, TStr("location"), Colon, TStr("Main St"), Comma,
                 TStr("issues"), Colon, TStr("chest pain"), RBrace, Comma,
       TStr("context_details"), Colon,
         LBrace, TStr("recipient_phone_number"), Colon, TStr("555-1111"), RBrace,
       RBrace >>
BodySparse == << LBrace, TStr("extracted_data"), Colon, LBrace, RBrace, RBrace >>
BodyNoExtracted == << LBrace, TStr("transcript"), Colon, TStr("hello"), RBrace >>
BodyInt == << TInt(42) >>
BodyListWithKey == << LBrack, TStr("extracted_data"), RBrack >>
BodyStr == << TStr("no extracted_data") >>
BodyTruncated == << LBrace, TStr("transcript"), Colon >>

Bodies ==
    { BodyFull, BodySparse, BodyNoExtracted, BodyInt, BodyListWithKey,
      BodyStr, BodyTruncated }

AnswerEmergency ==
    << LBrace, TStr("status"), Colon, TStr("emergency"), Comma,
       TStr("location"), Colon, TStr("Main St"), Comma,
       TStr("issue"), Colon, TStr("chest pain"), Comma,
       TStr("recipient_phone_number"), Colon, TStr("555-1111"), RBrace >>
AnswerNotEmergency ==
    << LBrace, TStr("status"), Colon, TStr("not emergency"), Comma,
       TStr("location"), Colon, TStr("Main St"), Comma,
       TStr("issue"), Colon, TStr("chest pain"), Comma,
       TStr("recipient_phone_number"), Colon, TStr("555-1111"), RBrace >>
AnswerUpper == << LBrace, TStr("status"), Colon, TStr("EMERGENCY"), RBrace >>
AnswerUnknown == << LBrace, TStr("status"), Colon, TStr("unknown"), RBrace >>
AnswerNoStatus == << LBrace, TStr("location"), Colon, TStr("Main St"), RBrace >>
AnswerNullStatus == << LBrace, TStr("status"), Colon, TNull, RBrace >>
AnswerList == << LBrack, TStr("emergency"), RBrack >>
AnswerFenced ==
    << TJunk, LBrace, TStr("status"), Colon, TStr("emergency"), RBrace, TJunk >>

AnswerTexts ==
    { AnswerEmergency, AnswerNotEmergency, AnswerUpper, AnswerUnknown,
      AnswerNoStatus, AnswerNullStatus, AnswerList, AnswerFenced }

\* What client.chat.completions.create(...) can do: raise, or return a
\* completion whose message content is a text.
OracleOutcomes ==
    { <<"raise", "APIConnectionError">>, <<"raise", "APITimeoutError">> }
    \cup { <<"content", a>> : a \in AnswerTexts }

\* ------------------------------------------------------------------------
\* State
\* ------------------------------------------------------------------------
VARIABLES
    content_store,       \* list of references to the payload objects stored
    hospital_store,      \* list of the dicts handed to forward_to_hospital
    consultation_store,  \* list of the dicts handed to forward_to_consultation
    running,             \* the handler the event loop is executing, 0 if none
    pc,                  \* per request: the source line its handler is at
    request,             \* per request: the body sent by the client
    data,                \* per request: the object bound to `data`
    chat_completion,     \* per request: outcome of the oracle call
    groq_response,       \* per request: the object bound to `groq_response`
    forward_result,      \* per request: the object bound to `forward_result`
    response             \* per request: what the caller receives

vars ==
    << content_store, hospital_store, consultation_store, running, pc, request,
       data, chat_completion, groq_response, forward_result, response >>

stores == << content_store, hospital_store, consultation_store >>
locals == << data, chat_completion, groq_response, forward_result >>

NoResponse == [code |-> 0, detail |-> "", data |-> Unset]

Init ==
    /\ content_store = <<>>
    /\ hospital_store = <<>>
    /\ consultation_store = <<>>
    /\ running = 0
    /\ pc = [r \in Requests |-> "idle"]
    /\ request = [r \in Requests |-> <<>>]
    /\ data = [r \in Requests |-> Unset]
    /\ chat_completion = [r \in Requests |-> Unset]
    /\ groq_response = [r \in Requests |-> Unset]
    /\ forward_result = [r \in Requests |-> Unset]
    /\ response = [r \in Requests |-> NoResponse]

\* The list content_store as the display page reads it: the current value
\* of each object it refers to.
StoredRecord(i) == data[content_store[i]]

\* except Exception as e: raise HTTPException(status_code=400, ...)
Raise400(r, exc) ==
    /\ response' = [response EXCEPT ![r] = [code |-> 400, detail |-> exc, data |-> Unset]]
    /\ pc' = [pc EXCEPT ![r] = "done"]
    /\ running' = 0

Goto(r, line) ==
    /\ pc' = [pc EXCEPT ![r] = line]
    /\ UNCHANGED << running, response >>

\* ------------------------------------------------------------------------
\* The handler, statement by statement.  The handler is a coroutine: it can
\* be suspended only at its one await (line 71); from there to its return
\* it occupies the event loop and no other handler runs.
\* ------------------------------------------------------------------------

\* A client posts a body to /webhook; requests are numbered as they arrive.
Arrive(r) ==
    /\ pc[r] = "idle"
    /\ \A q \in Requests : q < r => pc[q] # "idle"
    /\ \E b \in Bodies : request' = [request EXCEPT ![r] = b]
    /\ pc' = [pc EXCEPT ![r] = "L71"]
    /\ UNCHANGED << stores, locals, running, response >>

\* data = await request.json()
ReadBody(r) ==
    /\ pc[r] = "L71"
    /\ running = 0
    /\ LET parsed == json_loads(request[r]) IN
       IF parsed.ok
       THEN /\ data' = [data EXCEPT ![r] = parsed.val]
            /\ pc' = [pc EXCEPT ![r] = "L75"]
            /\ running' = r
            /\ UNCHANGED response
       ELSE /\ Raise400(r, "JSONDecodeError")
            /\ UNCHANGED data
    /\ UNCHANGED << stores, request, chat_completion, groq_response, forward_result >>

\* content_store = [data]
StoreRawOverwrite(r) ==
    /\ pc[r] = "L75"
    /\ running = r
    /\ content_store' = << r >>
    /\ Goto(r, "L78")
    /\ UNCHANGED << hospital_store, consultation_store, request, locals >>

\* content_store.append(data)
StoreRaw(r) ==
    /\ pc[r] = "L75"
    /\ running = r
    /\ content_store' = Append(content_store, r)
    /\ Goto(r, "L78")
    /\ UNCHANGED << hospital_store, consultation_store, request, locals >>

\* a guard that takes every payload to carry extracted_data
HasExtractedAlways(x) == TRUE

\* "extracted_data" in data
HasExtracted(x) == In("extracted_data", x)

\* if "extracted_data" in data:
CheckExtracted(r) ==
    /\ pc[r] = "L78"
    /\ running = r
    /\ IF InRaises(data[r]) THEN Raise400(r, "TypeError")
       ELSE IF HasExtracted(data[r]) THEN Goto(r, "L86")
       ELSE Goto(r, "L141")
    /\ UNCHANGED << stores, request, locals >>

\* groq_prompt = (... data.get('transcript', '') ... json.dumps(...) ...)
BuildPrompt(r) ==
    /\ pc[r] = "L86"
    /\ running = r
    /\ IF GetRaises(data[r]) THEN Raise400(r, "AttributeError")
       ELSE Goto(r, "L99")
    /\ UNCHANGED << stores, request, locals >>

\* client = Groq(); client.chat.completions.create(...) is entered: a
\* synchronous call, the event loop is held until it returns or raises.
StartOracleCall(r) ==
    /\ pc[r] = "L99"
    /\ running = r
    /\ Goto(r, "L100")
    /\ UNCHANGED << stores, request, locals >>

\* The call returns a completion or raises.
OracleReturns(r) ==
    /\ pc[r] = "L100"
    /\ running = r
    /\ \E o \in OracleOutcomes :
         /\ chat_completion' = [chat_completion EXCEPT ![r] = o]
         /\ IF o[1] = "raise" THEN Raise400(r, o[2]) ELSE Goto(r, "L119")
    /\ UNCHANGED << stores, request, data, groq_response, forward_result >>

\* The dict built in the except branch of the parse (lines 124-129).
Fallback(d) ==
    PyDict([ key \in {"status", "location", "issue", "recipient_phone_number"} |->
        CASE key = "status" -> PyStr("not emergency")
          [] key = "location" -> Get(Get(d, "extracted_data", EmptyDict), "location", PyStr(""))
          [] key = "issue" -> Get(Get(d, "extracted_data", EmptyDict), "issues", PyStr(""))
          [] OTHER -> Get(Get(d, "context_details", EmptyDict), "recipient_phone_number", PyStr("")) ])

\* Building that dict raises AttributeError when a .get receiver is no dict.
FallbackRaises(d) ==
    \/ GetRaises(Get(d, "extracted_data", EmptyDict))
    \/ GetRaises(Get(d, "context_details", EmptyDict))

\* groq_response_text = ...content; try: json.loads(...) except: fallback
ParseAnswer(r) ==
    /\ pc[r] = "L119"
    /\ running = r
    /\ LET groq_response_text == chat_completion[r][2]
           parsed == json_loads(groq_response_text)
       IN IF parsed.ok
          THEN /\ groq_response' = [groq_response EXCEPT ![r] = parsed.val]
               /\ Goto(r, "L132")
          ELSE IF FallbackRaises(data[r])
          THEN /\ Raise400(r, "AttributeError")
               /\ UNCHANGED groq_response
          ELSE /\ groq_response' = [groq_response EXCEPT ![r] = Fallback(data[r])]
               /\ Goto(r, "L132")
    /\ UNCHANGED << stores, request, data, chat_completion, forward_result >>

\* groq_response.get("status", "").lower() raises AttributeError when
\* groq_response is no dict or the status is no str.
StatusRaises(g) ==
    \/ GetRaises(g)
    \/ TypeOf(Get(g, "status", PyStr(""))) # "str"

\* the comparison without .lower()
IsEmergencyCaseSensitive(g) == Val(Get(g, "status", PyStr(""))) = "emergency"

\* groq_response.get("status", "").lower() == "emergency"
IsEmergency(g) == lower(Val(Get(g, "status", PyStr("")))) = "emergency"

HospitalAck == PyDict([message |-> PyStr("Data forwarded to hospital.")])
ConsultationAck == PyDict([message |-> PyStr("Data forwarded to consultation.")])

\* if ... : forward_to_hospital(groq_response) else: forward_to_consultation(...)
Route(r) ==
    /\ pc[r] = "L132"
    /\ running = r
    /\ IF StatusRaises(groq_response[r])
       THEN /\ Raise400(r, "AttributeError")
            /\ UNCHANGED << hospital_store, consultation_store, forward_result >>
       ELSE IF IsEmergency(groq_response[r])
       THEN /\ hospital_store' = Append(hospital_store, groq_response[r])
            /\ forward_result' = [forward_result EXCEPT ![r] = HospitalAck]
            /\ Goto(r, "L138")
            /\ UNCHANGED consultation_store
       ELSE /\ consultation_store' = Append(consultation_store, groq_response[r])
            /\ forward_result' = [forward_result EXCEPT ![r] = ConsultationAck]
            /\ Goto(r, "L138")
            /\ UNCHANGED hospital_store
    /\ UNCHANGED << content_store, request, data, chat_completion, groq_response >>

\* data["groq_response"] = groq_response; data["forward_result"] = forward_result
\* The dict is changed in place: content_store refers to the same object.
Attach(r) ==
    /\ pc[r] = "L138"
    /\ running = r
    /\ data' = [data EXCEPT ![r] =
           PyDict(SetItem(SetItem(Val(data[r]), "groq_response", groq_response[r]),
                          "forward_result", forward_result[r]))]
    /\ Goto(r, "L141")
    /\ UNCHANGED << stores, request, chat_completion, groq_response, forward_result >>

\* return {"status": "success", ..., "data": data}
Return(r) ==
    /\ pc[r] = "L141"
    /\ running = r
    /\ response' = [response EXCEPT ![r] = [code |-> 200, detail |-> "", data |-> data[r]]]
    /\ pc' = [pc EXCEPT ![r] = "done"]
    /\ running' = 0
    /\ UNCHANGED << stores, request, locals >>

Next ==
    \E r \in Requests :
        \/ Arrive(r)
        \/ ReadBody(r)
        \/ StoreRaw(r)
        \/ CheckExtracted(r)
        \/ BuildPrompt(r)
        \/ StartOracleCall(r)
        \/ OracleReturns(r)
        \/ ParseAnswer(r)
        \/ Route(r)
        \/ Attach(r)
        \/ Return(r)

Spec == Init /\ [][Next]_vars

\* ------------------------------------------------------------------------
\* Vocabulary of the properties
\* ------------------------------------------------------------------------
Done(r) == pc[r] = "done"

\* json_loads tabulated over the bodies and over the oracle's texts.
EventTable == [b \in Bodies \cup {<<>>} |-> json_loads(b)]
AnswerTable == [a \in AnswerTexts |-> json_loads(a)]

\* The event a request carries, as the client sent it.
Event(r) == EventTable[request[r]]

IsObject(r) == Event(r).ok /\ IsDict(Event(r).val)

\* A valid event: an object whose extracted_data and context_details, when
\* present, are mappings.
ValidEvent(r) ==
    /\ IsObject(r)
    /\ \A key \in {"extracted_data", "context_details"} :
         key \in DOMAIN Val(Event(r).val) => IsDict(Val(Event(r).val)[key])

CarriesExtracted(r) == IsObject(r) /\ "extracted_data" \in DOMAIN Val(Event(r).val)

\* Optional field of an optional section of an event, "" when absent.
Field(ev, section, key) ==
    IF section \in DOMAIN Val(ev) /\ key \in DOMAIN Val(Val(ev)[section])
    THEN Val(Val(ev)[section])[key]
    ELSE PyStr("")

\* The deterministic heuristic classification of an event.
Heuristic(ev) ==
    PyDict([ status |-> PyStr("not emergency"),
             location |-> Field(ev, "extracted_data", "location"),
             issue |-> Field(ev, "extracted_data", "issues"),
             recipient_phone_number |-> Field(ev, "context_details", "recipient_phone_number") ])

OracleFailed(r) == chat_completion[r][1] = "raise"
OracleRepliedText(r) == chat_completion[r][1] = "content"

\* The oracle's reply of request r, parsed.
Answer(r) == AnswerTable[chat_completion[r][2]]

RoutedToHospital(r) == forward_result[r] = HospitalAck
RoutedToConsultation(r) == forward_result[r] = ConsultationAck

\* The Classification and RoutingOutcome attached to the returned event.
Attached(r, key) ==
    IF IsDict(response[r].data) /\ key \in DOMAIN Val(response[r].data)
    THEN Val(response[r].data)[key]
    ELSE Unset

Count(s, x) == Cardinality({i \in DOMAIN s : s[i] = x})

\* The raw event of request r has been appended to the audit log.
Ingested(r) == data[r] # Unset /\ pc[r] # "L75"

\* Every intake record is owed to one request that was routed there.
IntakeAccounted ==
    /\ Len(hospital_store) = Cardinality({q \in Requests : RoutedToHospital(q)})
    /\ Len(consultation_store) = Cardinality({q \in Requests : RoutedToConsultation(q)})

CaseInsensitiveEmergency(g) ==
    /\ IsDict(g)
    /\ "status" \in DOMAIN Val(g)
    /\ TypeOf(Val(g)["status"]) = "str"
    /\ lower(Val(Val(g)["status"])) = "emergency"

\* ------------------------------------------------------------------------
\* Properties
\* ------------------------------------------------------------------------

\* C1: for a valid event with extracted_data whose oracle call failed, the
\* request returns success, the Classification is the heuristic and the
\* event went to consultation intake only.
C1_OracleFailureFallsBack ==
    \A r \in Requests :
        (Done(r) /\ ValidEvent(r) /\ CarriesExtracted(r) /\ OracleFailed(r)) =>
            /\ response[r].code = 200
            /\ groq_response[r] = Heuristic(Event(r).val)
            /\ Attached(r, "groq_response") = Heuristic(Event(r).val)
            /\ RoutedToConsultation(r)
            /\ IntakeAccounted

\* C2: triage is total: a valid event with extracted_data always ends in
\* success with one Classification and one RoutingOutcome attached and one
\* intake call, whatever the oracle did.
C2_TriageTotal ==
    \A r \in Requests :
        (Done(r) /\ ValidEvent(r) /\ CarriesExtracted(r)) =>
            /\ response[r].code = 200
            /\ Attached(r, "groq_response") # Unset
            /\ Attached(r, "forward_result") \in {HospitalAck, ConsultationAck}
            /\ RoutedToHospital(r) # RoutedToConsultation(r)
            /\ IntakeAccounted

\* C3: when the oracle answers with an object, the event goes to hospital
\* exactly if the status is, ignoring case, "emergency", and to consultation
\* for every other status value, a missing or non-string one included.
C3_RoutedByStatusOnly ==
    \A r \in Requests :
        (Done(r) /\ ValidEvent(r) /\ CarriesExtracted(r) /\ OracleRepliedText(r)
           /\ Answer(r).ok /\ IsDict(Answer(r).val)) =>
            /\ RoutedToHospital(r) <=> CaseInsensitiveEmergency(Answer(r).val)
            /\ ~CaseInsensitiveEmergency(Answer(r).val) => RoutedToConsultation(r)

\* C4: when the oracle's text is not well-formed JSON, or is JSON but not an
\* object, the request succeeds with the heuristic Classification and goes
\* to consultation.
C4_UnparseableAnswerFallsBack ==
    \A r \in Requests :
        (Done(r) /\ ValidEvent(r) /\ CarriesExtracted(r) /\ OracleRepliedText(r)
           /\ ~(Answer(r).ok /\ IsDict(Answer(r).val))) =>
            /\ response[r].code = 200
            /\ groq_response[r] = Heuristic(Event(r).val)
            /\ RoutedToConsultation(r)

\* C5: a valid event without extracted_data returns success with the event
\* as received, nothing attached; the raw event is in content_store once,
\* the oracle was not called and no intake record is owed to the request.
C5_NoExtractedStoredOnly ==
    \A r \in Requests :
        (Done(r) /\ ValidEvent(r) /\ ~CarriesExtracted(r)) =>
            /\ response[r].code = 200
            /\ response[r].data = Event(r).val
            /\ Attached(r, "groq_response") = Unset
            /\ Attached(r, "forward_result") = Unset
            /\ Count(content_store, r) = 1
            /\ data[r] = Event(r).val
            /\ chat_completion[r] = Unset
            /\ groq_response[r] = Unset
            /\ forward_result[r] = Unset
            /\ IntakeAccounted

C5_Witness ==
    \E r, q \in Requests :
        /\ Done(r) /\ ValidEvent(r) /\ ~CarriesExtracted(r)
        /\ response[r].code = 200
        /\ Count(content_store, r) = 1
        /\ Done(q) /\ RoutedToHospital(q)
        /\ Len(hospital_store) = 1 /\ Len(consultation_store) = 0

\* C6: an error is reported only for input that is not an object, and then
\* nothing of the request is in content_store or in the intake stores.
C6_ErrorOnlyForInvalidInputNoEffect ==
    \A r \in Requests :
        response[r].code = 400 =>
            /\ ~IsObject(r)
            /\ Count(content_store, r) = 0
            /\ forward_result[r] = Unset

\* The Classification and destination computed from a request's own event
\* and its own oracle answer.
OwnClassification(r) ==
    IF OracleRepliedText(r) /\ Answer(r).ok THEN Answer(r).val
    ELSE Heuristic(Event(r).val)

\* The raw fields of a stored record are those of the event received.
HoldsRaw(rec, ev) ==
    IF IsDict(ev)
    THEN IsDict(rec) /\ \A key \in DOMAIN Val(ev) :
             key \in DOMAIN Val(rec) /\ Val(rec)[key] = Val(ev)[key]
    ELSE rec = ev

\* C7: under every interleaving of the requests content_store holds exactly
\* one record for each event ingested and none else, each holding its
\* event's raw fields, and the Classification and destination of a request
\* are those of its own event and its own oracle answer.
C7_ConcurrentRequestsIsolated ==
    /\ \A r \in Requests : Count(content_store, r) = IF Ingested(r) THEN 1 ELSE 0
    /\ Len(content_store) = Cardinality({r \in Requests : Ingested(r)})
    /\ \A i \in DOMAIN content_store :
         HoldsRaw(StoredRecord(i), Event(content_store[i]).val)
    /\ \A r \in Requests :
         groq_response[r] # Unset => groq_response[r] = OwnClassification(r)
    /\ \A r \in Requests :
         forward_result[r] # Unset =>
            /\ RoutedToHospital(r) <=> CaseInsensitiveEmergency(OwnClassification(r))
            /\ IF RoutedToHospital(r)
               THEN Count(hospital_store, OwnClassification(r)) >= 1
               ELSE Count(consultation_store, OwnClassification(r)) >= 1
    /\ \A r \in Requests :
         (response[r].code = 200 /\ CarriesExtracted(r)) =>
            /\ Attached(r, "groq_response") = OwnClassification(r)
            /\ Attached(r, "forward_result") = forward_result[r]
    /\ IntakeAccounted

\* Two requests in flight together, the later arrival handled first, one
\* sent to hospital and the other to consultation.
C7_Witness ==
    /\ NumRequests >= 2
    /\ content_store = << 2, 1 >>
    /\ Done(1) /\ Done(2)
    /\ response[1].code = 200 /\ response[2].code = 200
    /\ RoutedToHospital(1) /\ RoutedToConsultation(2)
    /\ OwnClassification(1) # OwnClassification(2)

\* C8: a record of content_store, once appended, is never modified or
\* removed by any later step.
C8_StoredRecordImmutable ==
    [][\A i \in DOMAIN content_store :
          /\ i \in DOMAIN content_store'
          /\ content_store'[i] = content_store[i]
          /\ data'[content_store[i]] = data[content_store[i]]]_vars

\* A Classification with one of the two recognized statuses and all four fields.
Normalised(g) ==
    /\ IsDict(g)
    /\ {"status", "location", "issue", "recipient_phone_number"} \subseteq DOMAIN Val(g)
    /\ Val(g)["status"] \in {PyStr("emergency"), PyStr("not emergency")}

C10_TimeoutFallsBackAndReturns ==
    \A r \in Requests :
        (Done(r) /\ ValidEvent(r) /\ chat_completion[r] = <<"raise", "APITimeoutError">>) =>
            /\ response[r].code = 200
            /\ Attached(r, "groq_response") = Heuristic(Event(r).val)

====
